---- MODULE Spec2Model ----
(***************************************************************************)
(* Model of app.py: the salary dashboard script and its adaptive histogram *)
(* bin-count estimator calcular_nbins (Freedman-Diaconis with a Sturges    *)
(* fallback).                                                              *)
(*                                                                         *)
(* Numbers.  Salaries are integers.  The 25th/75th percentiles of numpy's  *)
(* linear interpolation are multiples of 1/4, so q1, q3 and iqr are kept   *)
(* multiplied by 4 (percentile, iqrx4).  The bin width h = 2*iqr*n^(-1/3)  *)
(* is irrational in general; every comparison the code makes with it is    *)
(* decided exactly on cubes: a <= b * n^(1/3)  <=>  a^3 <= b^3 * n.        *)
(***************************************************************************)
EXTENDS Integers, Sequences, FiniteSets, TLC

VARIABLES
    series,                     \* argument of the estimator call under test
    pc,                         \* "call" before the call, "done" after, "app" in the script
    result,                     \* what the call returned
    df,                         \* the loaded dataset (app.py:14)
    anos_selecionados,          \* the four sidebar selections (app.py:20-29)
    senioridades_selecionadas,
    contratos_selecionados,
    tamanhos_selecionados,
    view                        \* what the last run of the script displayed

vars == <<series, pc, result, df, anos_selecionados, senioridades_selecionadas,
          contratos_selecionados, tamanhos_selecionados, view>>

---------------------------------------------------------------------------
(* Bounds of the model *)

MaxLen == 5         \* longest sample enumerated in every order
BigValue == 120     \* an outlier salary, large enough to reach the upper clip
MaxPermLen == 4     \* longest sample compared with all of its permutations
MaxCount == 50      \* most copies of the lowest value in a counted sample
MaxMinor == 6       \* most copies of each other value in a counted sample
NRows == 3          \* rows of the dataset

(* Program constants *)

NBINS_DEFAULT == 10     \* return 10
NBINS_MIN == 5          \* np.clip(..., 5, 100)
NBINS_MAX == 100
NBINS_SEM_AMOSTRA == 30 \* ... if n > 0 else 30

---------------------------------------------------------------------------
(* Arithmetic helpers *)

RECURSIVE Pow2(_)
Pow2(k) == IF k = 0 THEN 1 ELSE 2 * Pow2(k - 1)

Cube(a) == a * a * a

\* least m with m^3 >= n
CeilCbrt(n) == CHOOSE m \in 0..n : Cube(m) >= n /\ \A j \in 0..(m - 1) : Cube(j) < n

\* a <= b * n^(1/3) for naturals a, b, n; the first test keeps the cubes small
CubeLe(a, b, n) == IF a > b * CeilCbrt(n) THEN FALSE ELSE Cube(a) <= Cube(b) * n

\* a = b * n^(1/3)
CubeEq(a, b, n) == IF a > b * CeilCbrt(n) THEN FALSE ELSE Cube(a) = Cube(b) * n

RECURSIVE SeqMax(_)
SeqMax(s) == IF Len(s) = 1 THEN s[1]
             ELSE LET m == SeqMax(Tail(s)) IN IF s[1] >= m THEN s[1] ELSE m

RECURSIVE SeqMin(_)
SeqMin(s) == IF Len(s) = 1 THEN s[1]
             ELSE LET m == SeqMin(Tail(s)) IN IF s[1] <= m THEN s[1] ELSE m

RECURSIVE Insert(_, _)
Insert(x, s) == IF s = <<>> THEN <<x>>
                ELSE IF x <= s[1] THEN <<x>> \o s
                ELSE <<s[1]>> \o Insert(x, Tail(s))

RECURSIVE np_sort(_)
np_sort(s) == IF s = <<>> THEN <<>> ELSE Insert(s[1], np_sort(Tail(s)))

---------------------------------------------------------------------------
(* calcular_nbins, app.py:117-133 *)

\* A call either returns a value or raises; trace is the set of steps it ran.
Return(v, t) == [ok |-> TRUE, ret |-> v, trace |-> t]
Raise(t) == [ok |-> FALSE, ret |-> 0, trace |-> t]

\* clip without its upper bound
clip_sem_teto(x, lo, hi) == IF x < lo THEN lo ELSE x

\* np.clip(x, lo, hi)
clip(x, lo, hi) == IF x < lo THEN lo ELSE IF x > hi THEN hi ELSE x

\* percentile taken on the sample as given, without ordering it
percentile_sem_ordenar(sample, q) ==
    LET pos4 == ((Len(sample) - 1) * q) \div 25
        lo == pos4 \div 4
        fr == pos4 % 4
    IN  IF fr = 0 THEN 4 * sample[lo + 1]
        ELSE (4 - fr) * sample[lo + 1] + fr * sample[lo + 2]

\* 4 * np.percentile(series, q) for q in {25, 75}, linear interpolation between
\* the order statistics around the virtual index (n - 1) * q / 100.
percentile(sample, q) ==
    LET sorted == np_sort(sample)
        pos4 == ((Len(sample) - 1) * q) \div 25
        lo == pos4 \div 4
        fr == pos4 % 4
    IN  IF fr = 0 THEN 4 * sorted[lo + 1]
        ELSE (4 - fr) * sorted[lo + 1] + fr * sorted[lo + 2]

\* round(data_range / h) with h = 2 * iqr * n^(-1/3), iqr given as iqrx4,
\* Python's round (ties to even).  data_range / h = 2 * data_range * n^(1/3) / iqrx4,
\* and k - 1/2 <= that quotient  <=>  (2k - 1) * iqrx4 <= 4 * data_range * n^(1/3).
\* The count stops one past NBINS_MAX, where the clip that follows decides alone.
\* A tie needs n to be a perfect cube; n ** (-1/3) is exact in floating point
\* for n = 8 and 64 and inexact for n = 27, where an exact tie could round
\* either way: no sample enumerated below has a tie at 5.5 or above.
\* With h = 0 the quotient is inf or nan and round raises (OverflowError /
\* ValueError): <<>>.
round_quot(data_range, iqrx4, n) ==
    LET up == Cardinality({k \in 1..(NBINS_MAX + 1) :
                              CubeLe((2 * k - 1) * iqrx4, 4 * data_range, n)})
        tie == up >= 1 /\ CubeEq((2 * up - 1) * iqrx4, 4 * data_range, n)
    IN  IF iqrx4 = 0 THEN <<>>
        ELSE IF tie /\ up % 2 = 1 THEN <<up - 1>> ELSE <<up>>

\* Sturges without the + 1
sturges_sem_mais_um(n_local) ==
    LET m == IF n_local > 2 THEN n_local ELSE 2
    IN  CHOOSE k \in 0..m : Pow2(k) >= m /\ \A j \in 0..(k - 1) : Pow2(j) < m

\* Sturges with floor in place of ceil
sturges_floor(n_local) ==
    LET m == IF n_local > 2 THEN n_local ELSE 2
        lg == CHOOSE k \in 0..m : Pow2(k) <= m /\ Pow2(k + 1) > m
    IN  lg + 1

\* np.ceil(np.log2(max(n_local, 2)) + 1)
sturges(n_local) ==
    LET m == IF n_local > 2 THEN n_local ELSE 2
        lg == CHOOSE k \in 0..m : Pow2(k) >= m /\ \A j \in 0..(k - 1) : Pow2(j) < m
    IN  lg + 1

\* if iqr > 0 and data_range > 0, app.py:125
tem_dispersao(iqrx4, data_range) == iqrx4 > 0 /\ data_range > 0

\* the Freedman-Diaconis count computed without the iqr, range and h guards
nbins_fd_sem_guardas(iqrx4, data_range, n_local) ==
    LET r == round_quot(data_range, iqrx4, n_local)
    IN  IF r = <<>> THEN [ok |-> FALSE, val |-> <<>>]
        ELSE [ok |-> TRUE, val |-> <<clip(r[1], NBINS_MIN, NBINS_MAX)>>]

\* nbins_fd, app.py:124-128.  val = <<>> is None; ok = FALSE when round raised.
nbins_fd_of(iqrx4, data_range, n_local) ==
    IF tem_dispersao(iqrx4, data_range)
    THEN IF 2 * iqrx4 > 0          \* h > 0
         THEN LET r == round_quot(data_range, iqrx4, n_local)
              IN  IF r = <<>> THEN [ok |-> FALSE, val |-> <<>>]
                  ELSE [ok |-> TRUE, val |-> <<clip(r[1], NBINS_MIN, NBINS_MAX)>>]
         ELSE [ok |-> TRUE, val |-> <<>>]
    ELSE [ok |-> TRUE, val |-> <<>>]

\* the count accepted only above 5
fd_aceito_estrito(nbins_fd) == nbins_fd # <<>> /\ nbins_fd[1] # 0 /\ nbins_fd[1] > NBINS_MIN

\* if nbins_fd and nbins_fd >= 5, app.py:129
fd_aceito(nbins_fd) == nbins_fd # <<>> /\ nbins_fd[1] # 0 /\ nbins_fd[1] >= NBINS_MIN

\* the early return taken by the empty sample only
amostra_pequena_vazia(n_local) == n_local < 1

\* if n_local <= 1, app.py:119
amostra_pequena(n_local) == n_local <= 1

calcular_nbins(sample) ==
    LET n_local == Len(sample) IN
    IF amostra_pequena(n_local) THEN Return(NBINS_DEFAULT, {})
    ELSE IF n_local = 0 THEN Raise({"percentile"})   \* np.percentile of nothing
    ELSE
    LET q1 == percentile(sample, 25)
        q3 == percentile(sample, 75)
        iqr == q3 - q1
        data_range == SeqMax(sample) - SeqMin(sample)
        fd == nbins_fd_of(iqr, data_range, n_local)
        nbins_fd == fd.val
        t1 == {"percentile", "range"} \cup (IF nbins_fd # <<>> THEN {"fd"} ELSE {})
    IN  IF ~fd.ok THEN Raise({"percentile", "range", "fd"})
        ELSE IF fd_aceito(nbins_fd) THEN Return(nbins_fd[1], t1)
        ELSE Return(clip(sturges(n_local), NBINS_MIN, NBINS_MAX), t1 \cup {"sturges"})

---------------------------------------------------------------------------
(* The script, app.py:14-220.  Streamlit runs it top to bottom once when   *)
(* the page loads and once more on every change of a sidebar widget.      *)

NoView == [executado |-> FALSE]

\* A missing value (NaN) is <<>>, a present value v is <<v>>.
NaN == <<>>

\* sorted(df[col].unique()), app.py:19-28: the options of a multiselect
disponiveis(d, col) == {d[i][col] : i \in 1..Len(d)}

\* the filter without the company-size mask
df_filtrado_sem_tamanho(d, anos, senioridades, contratos, tamanhos) ==
    SelectSeq(d, LAMBDA r : /\ r.ano \in anos
                            /\ r.senioridade \in senioridades
                            /\ r.contrato \in contratos)

\* the filter with the year mask joined by | instead of &
df_filtrado_ou(d, anos, senioridades, contratos, tamanhos) ==
    SelectSeq(d, LAMBDA r : \/ r.ano \in anos
                            \/ /\ r.senioridade \in senioridades
                               /\ r.contrato \in contratos
                               /\ r.tamanho_empresa \in tamanhos)

\* df_filtrado, app.py:32-37: the rows whose four attributes are all selected
df_filtrado_of(d, anos, senioridades, contratos, tamanhos) ==
    SelectSeq(d, LAMBDA r : /\ r.ano \in anos
                            /\ r.senioridade \in senioridades
                            /\ r.contrato \in contratos
                            /\ r.tamanho_empresa \in tamanhos)

\* df_filtrado['usd'].dropna().astype(float), app.py:113
RECURSIVE dropna(_)
dropna(col) == IF col = <<>> THEN <<>>
               ELSE IF col[1] = NaN THEN dropna(Tail(col))
               ELSE <<col[1][1]>> \o dropna(Tail(col))

usd_of(dff) == [i \in 1..Len(dff) |-> dff[i].usd]

RECURSIVE SeqSum(_)
SeqSum(s) == IF s = <<>> THEN 0 ELSE s[1] + SeqSum(Tail(s))

\* f"{x:,.0f}" of the quotient num / den: the nearest integer, ties to even
fmt0(num, den) ==
    LET q == num \div den
        r == num % den
    IN  IF 2 * r < den THEN q
        ELSE IF 2 * r > den THEN q + 1
        ELSE IF q % 2 = 0 THEN q ELSE q + 1

\* the cargo names in sorted order
cargos_ordenados == <<"Data Analyst", "Data Engineer", "Data Scientist">>

\* df_filtrado["cargo"].mode()[0], app.py:50: the most frequent cargo, the
\* first in sorted order among equals
mode_cargo(dff) ==
    LET cnt(c) == Cardinality({i \in 1..Len(dff) : dff[i].cargo = c})
        best == CHOOSE k \in 1..Len(cargos_ordenados) :
                    /\ \A j \in 1..Len(cargos_ordenados) :
                           cnt(cargos_ordenados[j]) <= cnt(cargos_ordenados[k])
                    /\ \A j \in 1..(k - 1) :
                           cnt(cargos_ordenados[j]) < cnt(cargos_ordenados[k])
    IN  cargos_ordenados[best]

\* KPIs, app.py:46-61: what the four metrics show (a number shown as NaN is <<>>)
kpis(dff) ==
    IF dff # <<>>
    THEN LET s == dropna(usd_of(dff))
         IN  [salario_medio |-> IF s = <<>> THEN NaN ELSE <<fmt0(SeqSum(s), Len(s))>>,
              salario_maximo |-> IF s = <<>> THEN NaN ELSE <<SeqMax(s)>>,
              total_registros |-> Len(dff),
              cargo_mais_frequente |-> mode_cargo(dff)]
    ELSE [salario_medio |-> <<0>>,
          salario_maximo |-> <<0>>,
          total_registros |-> 0,
          cargo_mais_frequente |-> "-"]

\* the estimator called whatever the sample size
chama_estimador_sempre(n) == n >= 0

\* if n > 0, app.py:135: the sample is passed to the estimator
chama_estimador(n) == n > 0

\* col_graf2, app.py:111-175: the histogram panel
col_graf2(dff) ==
    IF dff # <<>>
    THEN LET s == dropna(usd_of(dff))
             n == Len(s)
             r == IF chama_estimador(n) THEN calcular_nbins(s)
                  ELSE Return(NBINS_SEM_AMOSTRA, {})
         IN  [painel |-> IF r.ok THEN "grafico" ELSE "excecao",
              amostra |-> s,
              chamadas |-> IF chama_estimador(n) THEN <<s>> ELSE <<>>,
              nbins |-> IF r.ok THEN <<r.ret>> ELSE <<>>,
              linhas_ref |-> r.ok /\ n > 0]
    ELSE [painel |-> "aviso", amostra |-> <<>>, chamadas |-> <<>>, nbins |-> <<>>,
          linhas_ref |-> FALSE]

\* col_graf1, col_graf3, app.py:71-108, 180-195: chart or warning
col_graf(dff) == IF dff # <<>> THEN "grafico" ELSE "aviso"

\* col_graf4, app.py:198-216
col_graf4(dff) ==
    IF dff # <<>>
    THEN IF \E i \in 1..Len(dff) : dff[i].cargo = "Data Scientist"
         THEN "grafico" ELSE "info"
    ELSE "aviso"

\* one run of the script, app.py:32-220; an exception in a panel ends the run
script(d, anos, senioridades, contratos, tamanhos) ==
    LET dff == df_filtrado_of(d, anos, senioridades, contratos, tamanhos)
        hist == col_graf2(dff)
        seguiu == hist.painel # "excecao"
    IN  [executado |-> TRUE,
         kpi |-> kpis(dff),
         cargos |-> col_graf(dff),
         hist |-> hist,
         remoto |-> IF seguiu THEN col_graf(dff) ELSE "nada",
         paises |-> IF seguiu THEN col_graf4(dff) ELSE "nada",
         tabela |-> IF seguiu THEN dff ELSE <<>>]

\* The datasets of the model: NRows rows whose categories are fixed by the row
\* number and whose usd is missing, 1 or BigValue.
linha(i, usd) ==
    [ano |-> IF i % 2 = 1 THEN 2024 ELSE 2025,
     senioridade |-> IF ((i - 1) \div 2) % 2 = 0 THEN "junior" ELSE "senior",
     contrato |-> IF i % 3 = 0 THEN "parcial" ELSE "integral",
     tamanho_empresa |-> IF i % 4 = 2 THEN "grande" ELSE "pequena",
     cargo |-> cargos_ordenados[(i % 3) + 1],
     usd |-> usd]

UsdChoices == {NaN, <<1>>, <<BigValue>>}

Datasets == {[i \in 1..NRows |-> linha(i, u[i])] : u \in [1..NRows -> UsdChoices]}

FnIdle == series = <<>> /\ result = Raise({})

\* the first run: every multiselect defaults to all of its options
InitApp ==
    /\ df \in Datasets
    /\ anos_selecionados = disponiveis(df, "ano")
    /\ senioridades_selecionadas = disponiveis(df, "senioridade")
    /\ contratos_selecionados = disponiveis(df, "contrato")
    /\ tamanhos_selecionados = disponiveis(df, "tamanho_empresa")
    /\ view = script(df, anos_selecionados, senioridades_selecionadas,
                     contratos_selecionados, tamanhos_selecionados)
    /\ pc = "app"
    /\ FnIdle

MudarAno ==
    /\ pc = "app"
    /\ \E sel \in SUBSET disponiveis(df, "ano") :
          /\ sel # anos_selecionados
          /\ anos_selecionados' = sel
          /\ view' = script(df, sel, senioridades_selecionadas,
                            contratos_selecionados, tamanhos_selecionados)
    /\ UNCHANGED <<series, pc, result, df, senioridades_selecionadas,
                   contratos_selecionados, tamanhos_selecionados>>

MudarSenioridade ==
    /\ pc = "app"
    /\ \E sel \in SUBSET disponiveis(df, "senioridade") :
          /\ sel # senioridades_selecionadas
          /\ senioridades_selecionadas' = sel
          /\ view' = script(df, anos_selecionados, sel,
                            contratos_selecionados, tamanhos_selecionados)
    /\ UNCHANGED <<series, pc, result, df, anos_selecionados,
                   contratos_selecionados, tamanhos_selecionados>>

MudarContrato ==
    /\ pc = "app"
    /\ \E sel \in SUBSET disponiveis(df, "contrato") :
          /\ sel # contratos_selecionados
          /\ contratos_selecionados' = sel
          /\ view' = script(df, anos_selecionados, senioridades_selecionadas,
                            sel, tamanhos_selecionados)
    /\ UNCHANGED <<series, pc, result, df, anos_selecionados,
                   senioridades_selecionadas, tamanhos_selecionados>>

MudarTamanho ==
    /\ pc = "app"
    /\ \E sel \in SUBSET disponiveis(df, "tamanho_empresa") :
          /\ sel # tamanhos_selecionados
          /\ tamanhos_selecionados' = sel
          /\ view' = script(df, anos_selecionados, senioridades_selecionadas,
                            contratos_selecionados, sel)
    /\ UNCHANGED <<series, pc, result, df, anos_selecionados,
                   senioridades_selecionadas, contratos_selecionados>>

NextApp == MudarAno \/ MudarSenioridade \/ MudarContrato \/ MudarTamanho

SpecApp == InitApp /\ [][NextApp]_vars

---------------------------------------------------------------------------
(* The estimator called on its own *)

Values == {0, 1, 2, BigValue}

RECURSIVE SeqsUpTo(_)
SeqsUpTo(n) == IF n = 0 THEN {<<>>}
               ELSE LET S == SeqsUpTo(n - 1)
                    IN  S \cup {Append(s, v) : s \in {x \in S : Len(x) = n - 1}, v \in Values}

Rep(k, v) == [i \in 1..k |-> v]

\* counted samples: a copies of 0, b of 1, c of 2
Counted == {Rep(a, 0) \o Rep(b, 1) \o Rep(c, 2) :
               a \in 0..MaxCount, b \in 0..MaxMinor, c \in 0..MaxMinor}

NoResult == Raise({})

AppIdle ==
    /\ df = <<>>
    /\ anos_selecionados = {}
    /\ senioridades_selecionadas = {}
    /\ contratos_selecionados = {}
    /\ tamanhos_selecionados = {}
    /\ view = NoView

InitSeq ==
    /\ series \in SeqsUpTo(MaxLen)
    /\ pc = "call"
    /\ result = NoResult
    /\ AppIdle

InitBig ==
    /\ series \in Counted
    /\ pc = "call"
    /\ result = NoResult
    /\ AppIdle

Call ==
    /\ pc = "call"
    /\ result' = calcular_nbins(series)
    /\ pc' = "done"
    /\ UNCHANGED <<series, df, anos_selecionados, senioridades_selecionadas,
                   contratos_selecionados, tamanhos_selecionados, view>>

NextFn == Call

SpecSeq == InitSeq /\ [][NextFn]_vars

SpecBig == InitBig /\ [][NextFn]_vars

InitPerm ==
    /\ series \in SeqsUpTo(MaxPermLen)
    /\ pc = "call"
    /\ result = NoResult
    /\ AppIdle

SpecPerm == InitPerm /\ [][NextFn]_vars

---------------------------------------------------------------------------
(* Properties of the estimator *)

Done == pc = "done"
N == Len(series)
IQRx4 == percentile(series, 75) - percentile(series, 25)
Range == SeqMax(series) - SeqMin(series)

\* b * n^(1/3) <= a for naturals a, b, n
CubeGe(a, b, n) == IF a >= b * CeilCbrt(n) THEN TRUE ELSE Cube(a) >= Cube(b) * n

\* ceil(log2(n) + 1) for n >= 1: the least b with 2^(b-1) >= n
SturgesBound(n) == CHOOSE b \in 1..(n + 1) : Pow2(b - 1) >= n /\ (b = 1 \/ Pow2(b - 2) < n)

Clamped(x) == IF x < NBINS_MIN THEN NBINS_MIN ELSE IF x > NBINS_MAX THEN NBINS_MAX ELSE x

\* k is what Range / h rounds to (h = 2 * IQR * N^(-1/3)): k is within 1/2 of
\* the quotient, and an odd k is strictly within
RoundsTo(k) ==
    /\ CubeLe((2 * k - 1) * IQRx4, 4 * Range, N)
    /\ CubeGe((2 * k + 1) * IQRx4, 4 * Range, N)
    /\ k % 2 = 1 => /\ ~CubeEq((2 * k - 1) * IQRx4, 4 * Range, N)
                    /\ ~CubeEq((2 * k + 1) * IQRx4, 4 * Range, N)

\* C1: whatever the sample (empty, single-valued, constant, zero IQR or not),
\* the call returns an integer b with 5 <= b <= 100.
C1_BinCountInRange ==
    Done => result.ok /\ result.ret \in NBINS_MIN..NBINS_MAX

\* a sample whose Freedman-Diaconis count exceeds 100 is returned as 100
C1_Witness ==
    Done /\ N >= 2 /\ IQRx4 > 0 /\ ~RoundsTo(NBINS_MAX) /\ result.ret = NBINS_MAX

\* C2: a sample of size 0 or 1 yields exactly 10, whatever its value, and no
\* percentile, range or Sturges step is run.
C2_SmallSampleDefault ==
    (Done /\ N <= 1) => result.ok /\ result.ret = 10 /\ result.trace = {}

C2_Witness ==
    Done /\ N = 1 /\ series[1] = BigValue /\ result.ret = 10

\* C3: a sample of size n >= 2 with zero IQR or zero range yields the Sturges
\* value ceil(log2(max(n, 2)) + 1) clamped to [5, 100]; 50 equal values yield 7.
C3_SturgesFallback ==
    /\ (Done /\ N >= 2 /\ (IQRx4 = 0 \/ Range = 0)) =>
          result.ok /\ result.ret = Clamped(SturgesBound(N))
    /\ (Done /\ N = 50 /\ Range = 0) => result.ret = 7

C3_Witness ==
    Done /\ N = 50 /\ Range = 0 /\ result.ret = 7

\* C4: a sample of size n >= 2 with IQR > 0 and range R > 0 yields
\* round(R / h), h = 2 * IQR * n^(-1/3), clamped to [5, 100], and the Sturges
\* fallback is not run.
C4_FreedmanDiaconis ==
    (Done /\ N >= 2 /\ IQRx4 > 0 /\ Range > 0) =>
        /\ result.ok
        /\ "sturges" \notin result.trace
        /\ \/ \E k \in 0..NBINS_MAX : RoundsTo(k) /\ result.ret = Clamped(k)
           \/ /\ CubeLe((2 * NBINS_MAX + 1) * IQRx4, 4 * Range, N)
              /\ result.ret = NBINS_MAX

\* a Freedman-Diaconis count strictly inside the clamp
C4_Witness ==
    /\ Done /\ N >= 2 /\ IQRx4 > 0 /\ Range > 0
    /\ result.ret > NBINS_MIN /\ result.ret < NBINS_MAX /\ RoundsTo(result.ret)

\* C5: the bin count does not depend on the order of the sample: every
\* permutation of the sample yields the bin count the call returned.
C5_OrderIndependent ==
    Done => \A p \in Permutations(1..N) :
                calcular_nbins([i \in 1..N |-> series[p[i]]]) = result

\* an unsorted sample with spread
C5_Witness ==
    /\ Done /\ N >= 3 /\ "fd" \in result.trace
    /\ \E i \in 1..(N - 1) : series[i] > series[i + 1]

\* C6: the call is total: on any sample, degenerate or not, it ends with an
\* integer and never with an exception.
C6_Total ==
    Done => result.ok /\ result.ret \in Int

\* a sample with positive range and zero IQR, where h = 0
C6_Witness ==
    Done /\ N >= 2 /\ Range > 0 /\ IQRx4 = 0 /\ result.ok

\* C7 as stated: for n >= 2 the bin count is not below the Sturges bound of n.
C7_NotBelowSturges ==
    (Done /\ N >= 2) => result.ret >= Clamped(SturgesBound(N))

\* C7 amended: for n >= 2 the bin count is not below the lower clamp 5, and
\* it is not below the Sturges bound of n whenever that bound is 5 or the
\* Sturges fallback is what the call returned.
C7_Amended ==
    (Done /\ N >= 2) =>
        /\ result.ok /\ result.ret >= NBINS_MIN
        /\ ("sturges" \in result.trace \/ Clamped(SturgesBound(N)) = NBINS_MIN) =>
               result.ret >= Clamped(SturgesBound(N))

\* a fallback on a sample large enough for the Sturges bound to exceed 5
C7_Witness ==
    /\ Done /\ N >= 2 /\ Range > 0 /\ "sturges" \in result.trace
    /\ Clamped(SturgesBound(N)) > NBINS_MIN /\ result.ret = Clamped(SturgesBound(N))

---------------------------------------------------------------------------
(* Properties of the script *)

InApp == pc = "app"

\* the rows of the dataset that pass the current selections
Kept == {i \in 1..Len(df) : /\ df[i].ano \in anos_selecionados
                            /\ df[i].senioridade \in senioridades_selecionadas
                            /\ df[i].contrato \in contratos_selecionados
                            /\ df[i].tamanho_empresa \in tamanhos_selecionados}

\* the non-missing usd values of the kept rows among the first i rows
RECURSIVE AmostraAte(_)
AmostraAte(i) == IF i = 0 THEN <<>>
                 ELSE AmostraAte(i - 1) \o (IF i \in Kept THEN df[i].usd ELSE <<>>)

Amostra == AmostraAte(Len(df))

Filtrou ==
    \/ anos_selecionados # disponiveis(df, "ano")
    \/ senioridades_selecionadas # disponiveis(df, "senioridade")
    \/ contratos_selecionados # disponiveis(df, "contrato")
    \/ tamanhos_selecionados # disponiveis(df, "tamanho_empresa")

\* C8 as stated: after any filter changes, the bin count of the histogram is
\* the estimator applied to the non-missing usd values of the currently
\* filtered dataset.
C8_NbinsIsEstimate ==
    (InApp /\ view.hist.painel = "grafico") =>
        view.hist.nbins = <<calcular_nbins(Amostra).ret>>

\* C8 amended: after any filter changes, the sample of the histogram is the
\* non-missing usd values of the currently filtered dataset only, and the bin
\* count is the estimator applied to it when it has at least one value and 30
\* when it has none; the dataset is never modified.
C8_Amended ==
    /\ [](InApp => /\ view.hist.amostra = Amostra
                   /\ Kept # {} =>
                        /\ view.hist.painel = "grafico"
                        /\ view.hist.nbins =
                             <<IF Amostra # <<>> THEN calcular_nbins(Amostra).ret
                               ELSE NBINS_SEM_AMOSTRA>>)
    /\ [][df' = df]_vars

\* a run after a filter change, on a sample of two or more values
C8_Witness ==
    /\ InApp /\ Filtrou /\ Len(Amostra) >= 2
    /\ view.hist.nbins = <<calcular_nbins(Amostra).ret>>

\* C9: when the filtered dataset is empty, as it is whenever one of the four
\* selections is empty, the estimator is not called, no histogram is drawn,
\* the four chart panels show their warning and the KPIs show 0, 0, 0 and "-".
C9_EmptyPlaceholders ==
    InApp =>
        /\ (\/ anos_selecionados = {} \/ senioridades_selecionadas = {}
            \/ contratos_selecionados = {} \/ tamanhos_selecionados = {}) => Kept = {}
        /\ Kept = {} =>
            /\ view.hist.chamadas = <<>>
            /\ view.hist.painel = "aviso" /\ view.hist.nbins = <<>>
            /\ view.cargos = "aviso" /\ view.remoto = "aviso" /\ view.paises = "aviso"
            /\ view.kpi = [salario_medio |-> <<0>>, salario_maximo |-> <<0>>,
                           total_registros |-> 0, cargo_mais_frequente |-> "-"]

\* only the year selection is empty
C9_Witness ==
    /\ InApp /\ anos_selecionados = {} /\ senioridades_selecionadas # {}
    /\ contratos_selecionados # {} /\ tamanhos_selecionados # {}
    /\ view.hist.painel = "aviso" /\ view.kpi.cargo_mais_frequente = "-"

\* C10: the script passes the estimator only samples of size >= 1; when the
\* filtered dataset has rows but no usd value the bin count is 30 and no
\* reference lines are added; the bin count of a drawn histogram is 30 or an
\* estimator result within [5, 100].
C10_CallSite ==
    InApp =>
        /\ \A j \in 1..Len(view.hist.chamadas) : Len(view.hist.chamadas[j]) >= 1
        /\ (Kept # {} /\ Amostra = <<>>) =>
              /\ view.hist.nbins = <<30>>
              /\ view.hist.chamadas = <<>>
              /\ ~view.hist.linhas_ref
        /\ view.hist.painel = "grafico" =>
              \/ view.hist.nbins = <<30>>
              \/ /\ view.hist.chamadas # <<>>
                 /\ view.hist.nbins[1] \in NBINS_MIN..NBINS_MAX

\* rows are kept but none has a usd value
C10_Witness ==
    InApp /\ Kept # {} /\ Amostra = <<>> /\ view.hist.nbins = <<30>>

====
